---- MODULE Spec2Model ----
(***************************************************************************)
(* A model of keyring_gcloud: the GoogleCredential codec (encode,          *)
(* from_encoded, valid, refresh) and the GoogleCloudKeyring proxy          *)
(* (get_password, set_password, delete_password, _should_intercept) in     *)
(* front of a storage backend and the Google identity provider.            *)
(*                                                                         *)
(* Text is a sequence of code points; bytes are a sequence of 0..255.      *)
(* An optional value (Python's "x | None") is <<>> for None and <<x>>      *)
(* for a present x.  A call that may raise yields [exc, val]: exc is the   *)
(* exception's name, "" when the call returned val.                        *)
(* Time is counted in minutes; a datetime is [min, aware].                 *)
(***************************************************************************)
EXTENDS Integers, Sequences, FiniteSets, TLC

None == <<>>
Some(x) == <<x>>
Ret(v) == [exc |-> "", val |-> v]
Raise(e) == [exc |-> e, val |-> None]

\* ------------------------------------------------------------------ text

\* the separator of the encoded format, ":"
Colon == 58
\* base64's padding character, "="
Pad == 61
\* the first code point outside ASCII
AsciiLimit == 128

Digit(n) == 48 + n
IsDigit(ch) == ch >= 48 /\ ch <= 57

\* "+00:00", the UTC offset isoformat() writes for an aware datetime
UtcSuffix == <<43, 48, 48, Colon, 48, 48>>

\* str.encode("ascii") and bytes.decode("ascii"): the same numbers, or
\* UnicodeEncodeError / UnicodeDecodeError when one is outside ASCII
IsAscii(s) == \A i \in 1..Len(s) : s[i] < AsciiLimit

\* base64's alphabet: A-Z a-z 0-9 + /
B64Char(i) ==
    IF i < 26 THEN 65 + i
    ELSE IF i < 52 THEN 97 + (i - 26)
    ELSE IF i < 62 THEN 48 + (i - 52)
    ELSE IF i = 62 THEN 43 ELSE 47

\* the alphabet's inverse; 64 for a character outside it
B64Index(ch) ==
    IF ch >= 65 /\ ch <= 90 THEN ch - 65
    ELSE IF ch >= 97 /\ ch <= 122 THEN ch - 97 + 26
    ELSE IF ch >= 48 /\ ch <= 57 THEN ch - 48 + 52
    ELSE IF ch = 43 THEN 62
    ELSE IF ch = 47 THEN 63 ELSE 64

\* base64.b64encode: three bytes become four characters, the tail is padded
RECURSIVE b64encode(_)
b64encode(b) ==
    IF Len(b) = 0 THEN <<>>
    ELSE IF Len(b) = 1 THEN
        <<B64Char(b[1] \div 4), B64Char((b[1] % 4) * 16), Pad, Pad>>
    ELSE IF Len(b) = 2 THEN
        <<B64Char(b[1] \div 4), B64Char((b[1] % 4) * 16 + b[2] \div 16),
          B64Char((b[2] % 16) * 4), Pad>>
    ELSE
        <<B64Char(b[1] \div 4), B64Char((b[1] % 4) * 16 + b[2] \div 16),
          B64Char((b[2] % 16) * 4 + b[3] \div 64), B64Char(b[3] % 64)>>
        \o b64encode(SubSeq(b, 4, Len(b)))

\* binascii.a2b_base64 without validation: characters outside the alphabet
\* are skipped, a complete pad sequence ends the input, a dangling group is
\* binascii.Error (None)
RECURSIVE a2b_base64(_, _, _, _, _, _)
a2b_base64(s, i, quad, left, pads, out) ==
    IF i > Len(s) THEN (IF quad # 0 THEN None ELSE Some(out))
    ELSE IF s[i] = Pad THEN
        IF quad >= 2 /\ quad + pads + 1 >= 4 THEN Some(out)
        ELSE a2b_base64(s, i + 1, quad, left,
                        IF quad >= 2 THEN pads + 1 ELSE pads, out)
    ELSE LET v == B64Index(s[i]) IN
        IF v >= 64 THEN a2b_base64(s, i + 1, quad, left, pads, out)
        ELSE IF quad = 0 THEN a2b_base64(s, i + 1, 1, v, 0, out)
        ELSE IF quad = 1 THEN
            a2b_base64(s, i + 1, 2, v % 16, 0, Append(out, left * 4 + v \div 16))
        ELSE IF quad = 2 THEN
            a2b_base64(s, i + 1, 3, v % 4, 0, Append(out, left * 16 + v \div 4))
        ELSE a2b_base64(s, i + 1, 0, 0, 0, Append(out, left * 64 + v))

\* base64.b64decode of a str: the text must be ASCII (ValueError otherwise)
b64decode(s) == IF IsAscii(s) THEN a2b_base64(s, 1, 0, 0, 0, <<>>) ELSE None

\* str.split(sep): the parts between the separators
RECURSIVE split(_, _)
split(s, sep) ==
    IF \E i \in 1..Len(s) : s[i] = sep
    THEN LET i == CHOOSE j \in 1..Len(s) :
                     s[j] = sep /\ \A k \in 1..(j - 1) : s[k] # sep
         IN <<SubSeq(s, 1, i - 1)>> \o split(SubSeq(s, i + 1, Len(s)), sep)
    ELSE <<s>>

\* datetime.isoformat(): hour and minute as two digits each (the date is
\* folded into the hour count), then the UTC offset of an aware datetime
isoformat(d) ==
    LET h == d.min \div 60
        m == d.min % 60
    IN <<Digit(h \div 10), Digit(h % 10), Colon, Digit(m \div 10), Digit(m % 10)>>
       \o (IF d.aware THEN UtcSuffix ELSE <<>>)

\* datetime.fromisoformat(): None for ValueError
fromisoformat(s) ==
    IF /\ Len(s) \in {5, 5 + Len(UtcSuffix)}
       /\ IsDigit(s[1]) /\ IsDigit(s[2]) /\ s[3] = Colon
       /\ IsDigit(s[4]) /\ IsDigit(s[5]) /\ (s[4] - 48) < 6
       /\ (Len(s) > 5 => SubSeq(s, 6, Len(s)) = UtcSuffix)
    THEN Some([min |-> ((s[1] - 48) * 10 + (s[2] - 48)) * 60
                        + (s[4] - 48) * 10 + (s[5] - 48),
               aware |-> Len(s) > 5])
    ELSE None

\* ------------------------------------------------------ GoogleCredential

\* Refresh token if it's older than this (minutes)
default_expiry == 55

GoogleCredential(token, expiry) == [token |-> token, expiry |-> expiry]
EmptyCredential == GoogleCredential(None, None)

\* datetime.now(timezone.utc) at minute t
UtcNow(t) == [min |-> t, aware |-> TRUE]

\* valid with the bug of a strict comparison: a record expiring this very
\* minute counts as expired
valid_strict(cred, t) ==
    IF cred.token = None \/ cred.expiry = None THEN Ret(FALSE)
    ELSE IF ~cred.expiry[1].aware THEN [exc |-> "TypeError", val |-> FALSE]
    ELSE Ret(cred.expiry[1].min > t)

\* GoogleCredential.valid, read at minute t; comparing a naive expiry with
\* the aware current time is a TypeError
valid(cred, t) ==
    IF cred.token = None \/ cred.expiry = None THEN Ret(FALSE)
    ELSE IF ~cred.expiry[1].aware THEN [exc |-> "TypeError", val |-> FALSE]
    ELSE Ret(cred.expiry[1].min >= t)

\* from_encoded with the bug of the parts not counted: the first two are
\* taken, whatever follows
from_encoded_first_two(encoded_credentials) ==
    IF encoded_credentials = None \/ encoded_credentials = Some(<<>>)
    THEN EmptyCredential
    ELSE LET parts == split(encoded_credentials[1], Colon) IN
        IF Len(parts) < 2 THEN EmptyCredential
        ELSE LET expiry_bytes == b64decode(parts[1])
                 token_bytes == b64decode(parts[2])
             IN IF expiry_bytes = None \/ ~IsAscii(expiry_bytes[1])
                THEN EmptyCredential
                ELSE LET expiry == fromisoformat(expiry_bytes[1]) IN
                    IF expiry = None \/ token_bytes = None
                       \/ ~IsAscii(token_bytes[1])
                    THEN EmptyCredential
                    ELSE GoogleCredential(Some(token_bytes[1]), expiry)

\* GoogleCredential.from_encoded: any failure gives the empty credential
from_encoded(encoded_credentials) ==
    IF encoded_credentials = None \/ encoded_credentials = Some(<<>>)
    THEN EmptyCredential
    ELSE LET parts == split(encoded_credentials[1], Colon) IN
        IF Len(parts) # 2 THEN EmptyCredential
        ELSE LET expiry_bytes == b64decode(parts[1])
                 token_bytes == b64decode(parts[2])
             IN IF expiry_bytes = None \/ ~IsAscii(expiry_bytes[1])
                THEN EmptyCredential
                ELSE LET expiry == fromisoformat(expiry_bytes[1]) IN
                    IF expiry = None \/ token_bytes = None
                       \/ ~IsAscii(token_bytes[1])
                    THEN EmptyCredential
                    ELSE GoogleCredential(Some(token_bytes[1]), expiry)

\* encode with the bug of the assertion made first: a record without an
\* expiry fails even when it has no token
encode_assert_first(cred) ==
    IF cred.expiry = None THEN Raise("AssertionError")
    ELSE IF cred.token = None THEN Ret(None)
    ELSE IF ~IsAscii(cred.token[1]) THEN Raise("UnicodeEncodeError")
    ELSE Ret(Some(b64encode(isoformat(cred.expiry[1])) \o <<Colon>>
                  \o b64encode(cred.token[1])))

\* encode with the bug of the assertion left out: a missing expiry is
\* written as the text "None"
encode_unasserted(cred) ==
    IF cred.token = None THEN Ret(None)
    ELSE IF ~IsAscii(cred.token[1]) THEN Raise("UnicodeEncodeError")
    ELSE Ret(Some(b64encode(IF cred.expiry = None THEN <<78, 111, 110, 101>>
                            ELSE isoformat(cred.expiry[1]))
                  \o <<Colon>> \o b64encode(cred.token[1])))

\* encode with the bug of the two components swapped: "<token>:<expiry>"
encode_swapped(cred) ==
    IF cred.token = None THEN Ret(None)
    ELSE IF cred.expiry = None THEN Raise("AssertionError")
    ELSE IF ~IsAscii(cred.token[1]) THEN Raise("UnicodeEncodeError")
    ELSE Ret(Some(b64encode(cred.token[1]) \o <<Colon>>
                  \o b64encode(isoformat(cred.expiry[1]))))

\* GoogleCredential.encode: "<expiry>:<token>", both base64 encoded
encode(cred) ==
    IF cred.token = None THEN Ret(None)
    ELSE IF cred.expiry = None THEN Raise("AssertionError")
    ELSE IF ~IsAscii(cred.token[1]) THEN Raise("UnicodeEncodeError")
    ELSE Ret(Some(b64encode(isoformat(cred.expiry[1])) \o <<Colon>>
                  \o b64encode(cred.token[1])))

\* ------------------------------------------------------------ the system

\* the callers of the keyring
Callers == {1, 2}

\* the longest the clock runs (minutes), and the steps it advances by
MaxTime == 56
TickSteps == {27, 28}

Usernames == {"oauth2accesstoken", "bob"}
Keys == [service : {"gcloud"}, username : Usernames]

\* an encoded credential whose timestamp carries no UTC offset, as another
\* program may have stored it
NaiveEncoded ==
    b64encode(isoformat([min |-> default_expiry, aware |-> FALSE]))
    \o <<Colon>> \o b64encode(<<97>>)

\* passwords handed to set_password: "a", the non-ASCII "e with acute", and
\* the text of an encoded credential with a naive timestamp
Passwords == {<<97>>, <<233>>, NaiveEncoded}
\* what credentials.token may hold: nothing, "b", "c", or a non-ASCII text
ProviderTokens == {None, Some(<<98>>), Some(<<99>>), Some(<<233>>)}

\* os.environ, the two variables _should_intercept reads
Environs == [KEYRING_GCLOUD_ON : {None, Some("1")},
             KEYRING_GCLOUD_USERNAME : {None, Some("bob")}]

VARIABLES
    now,        \* the clock, in minutes
    environ,    \* os.environ
    backend,    \* self.backend: the password stored under each key, or None
    frame,      \* per caller: the call in progress or just finished
    last_write, \* per key: the write the backend's value comes from
    probe       \* the codec on its own: a credential, its encoding, its decoding

vars == <<now, environ, backend, frame, last_write, probe>>

\* no write yet, or the value was deleted
NoWrite == [by |-> 0, op |-> "", token |-> None, at |-> None]
\* caller c wrote, in a call of op; token and at are those of the credential
\* it encoded, None when it wrote the password as it was
Write(c, op, token, at) == [by |-> c, op |-> op, token |-> token, at |-> at]

IdleFrame ==
    [pc |-> "idle", op |-> "", key |-> None, password |-> None,
     secret |-> None, cred |-> EmptyCredential, expired |-> FALSE,
     provided |-> None, encoded |-> None, ret |-> Ret(None),
     raised |-> None, valid_at |-> None, refreshed_at |-> None,
     trace |-> <<>>, before |-> [k \in Keys |-> None], prior |-> NoWrite]

\* a call of op begins: its locals are fresh; the backend as the call found
\* it, and the write its key's value came from, are remembered
NewFrame(op, key, password, pc) ==
    [IdleFrame EXCEPT !.pc = pc, !.op = op, !.key = Some(key),
                      !.password = password, !.before = backend,
                      !.prior = last_write[key]]

\* the calls a call has made so far, in order
Log(f, names) == f.trace \o names

\* what a call did, by name, and how often
Did(f, name) == \E i \in 1..Len(f.trace) : f.trace[i] = name
Times(f, name) == Cardinality({i \in 1..Len(f.trace) : f.trace[i] = name})

\* a call ends: its locals are gone; what it was, what it did and what it
\* found are kept
Ended(f, r, names) ==
    [IdleFrame EXCEPT !.pc = "done", !.op = f.op, !.key = f.key,
                      !.password = f.password, !.before = f.before,
                      !.prior = f.prior, !.raised = f.raised,
                      !.expired = f.expired,
                      !.provided = f.provided, !.valid_at = f.valid_at,
                      !.refreshed_at = f.refreshed_at,
                      !.ret = r, !.trace = Log(f, names)]
\* a call returns v
Return(f, v, names) == Ended(f, Ret(v), names)

\* Propagate with the bug of a refresh failure caught: the stale token the
\* call decoded is returned
Propagate_refresh_caught(f, e, names) ==
    IF e = "RefreshError"
    THEN Ended([f EXCEPT !.raised = Some(e)], Ret(f.cred.token), names)
    ELSE Ended([f EXCEPT !.raised = Some(e)], Raise(e), names)

\* Propagate with the bug of a failed write ignored in get_password: the
\* fresh token is returned
Propagate_write_ignored(f, e, names) ==
    IF e = "PasswordSetError" /\ f.op = "get_password"
    THEN Ended([f EXCEPT !.raised = Some(e)], Ret(f.cred.token), names)
    ELSE Ended([f EXCEPT !.raised = Some(e)], Raise(e), names)

\* Propagate with the bug of a failed read taken for "nothing stored": the
\* call goes on to decode None
Propagate_read_as_absent(f, e, names) ==
    IF e = "KeyringLocked"
    THEN [f EXCEPT !.pc = "get_decide", !.secret = None,
                   !.raised = Some(e), !.trace = Log(f, names)]
    ELSE Ended([f EXCEPT !.raised = Some(e)], Raise(e), names)

\* a collaborator raised e inside the call: nothing in get_password,
\* set_password or delete_password catches it, so the call raises e
Propagate(f, e, names) ==
    Ended([f EXCEPT !.raised = Some(e)], Raise(e), names)

\* truthy with the bug of the test inverted into "never": no encoded text is
\* ever written
truthy_never(v) == FALSE

\* truthy with the bug of the test dropped: whatever encode() returned is
\* written
truthy_always(v) == TRUE

\* Python's truth of "str | None": None and "" are false
truthy(v) == v # None /\ v # Some(<<>>)

Idle(c) == frame[c].pc = "idle"

\* environ.get(name, default)
EnvGet(name, default) ==
    IF environ[name] = None THEN default ELSE environ[name][1]

\* _should_intercept with the bug of KEYRING_GCLOUD_USERNAME not read: the
\* special username is always the default
should_intercept_default_only(service, username) ==
    IF EnvGet("KEYRING_GCLOUD_ON", "") # "" THEN TRUE
    ELSE username = "oauth2accesstoken"

\* GoogleCloudKeyring._should_intercept
should_intercept(service, username) ==
    IF EnvGet("KEYRING_GCLOUD_ON", "") # "" THEN TRUE
    ELSE username = EnvGet("KEYRING_GCLOUD_USERNAME", "oauth2accesstoken")

NoProbe == [stage |-> "off", cred |-> EmptyCredential,
            encoded |-> Ret(None), decoded |-> EmptyCredential,
            text |-> None, at |-> 0, verdict |-> Ret(FALSE)]

Init ==
    /\ now = 0
    /\ environ \in Environs
    /\ backend = [k \in Keys |-> None]
    /\ frame = [c \in Callers |-> IdleFrame]
    /\ last_write = [k \in Keys |-> NoWrite]
    /\ probe = NoProbe

\* the clock advances
Tick ==
    /\ \E d \in TickSteps : now + d <= MaxTime /\ now' = now + d
    /\ UNCHANGED <<environ, backend, frame, last_write, probe>>

\* the environment is changed between calls (the backend outlives a process)
SetEnviron ==
    /\ \A c \in Callers : Idle(c)
    /\ \E e \in Environs : e # environ /\ environ' = e
    /\ UNCHANGED <<now, backend, frame, last_write, probe>>

\* ----------------------------------------------------------- get_password

\* get_password is called
GetStart(c, k) ==
    /\ Idle(c)
    /\ frame' = [frame EXCEPT ![c] = NewFrame("get_password", k, None, "get_read")]
    /\ UNCHANGED <<now, environ, backend, last_write, probe>>

\* secret = self.backend.get_password(service, username); the backend may raise
GetRead(c) ==
    /\ frame[c].pc = "get_read"
    /\ LET f == frame[c] IN
       \E ok \in BOOLEAN :
          frame' = [frame EXCEPT ![c] =
              IF ok
              THEN [f EXCEPT !.pc = "get_decide",
                             !.secret = backend[f.key[1]],
                             !.trace = Log(f, <<"backend.get_password">>)]
              ELSE Propagate(f, "KeyringLocked", <<"backend.get_password">>)]
    /\ UNCHANGED <<now, environ, backend, last_write, probe>>

\* GetDecide with the bug of a fallback: a stored value that does not decode
\* is taken for the token itself and returned
GetDecide_raw_fallback(c) ==
    /\ frame[c].pc = "get_decide"
    /\ LET f == frame[c]
           key == f.key[1]
           decoded == from_encoded(f.secret)
           v == valid(decoded, now)
           g == [f EXCEPT !.cred = decoded, !.valid_at = Some(now)]
           steps == <<"_should_intercept", "from_encoded", "valid">>
       IN frame' = [frame EXCEPT ![c] =
              IF ~should_intercept(key.service, key.username)
              THEN Return(f, f.secret, <<"_should_intercept">>)
              ELSE IF f.secret # None /\ decoded = EmptyCredential
              THEN Return(g, f.secret, steps)
              ELSE IF v.exc # "" THEN Propagate(g, v.exc, steps)
              ELSE IF v.val THEN Return(g, decoded.token, steps)
              ELSE [g EXCEPT !.pc = "refresh_default", !.trace = Log(f, steps)]]
    /\ UNCHANGED <<now, environ, backend, last_write, probe>>

\* the pass-through return, or the decoding and the validity check
GetDecide(c) ==
    /\ frame[c].pc = "get_decide"
    /\ LET f == frame[c]
           key == f.key[1]
           decoded == from_encoded(f.secret)
           v == valid(decoded, now)
           g == [f EXCEPT !.cred = decoded, !.valid_at = Some(now)]
           steps == <<"_should_intercept", "from_encoded", "valid">>
       IN frame' = [frame EXCEPT ![c] =
              IF ~should_intercept(key.service, key.username)
              THEN Return(f, f.secret, <<"_should_intercept">>)
              ELSE IF v.exc # "" THEN Propagate(g, v.exc, steps)
              ELSE IF v.val THEN Return(g, decoded.token, steps)
              ELSE [g EXCEPT !.pc = "refresh_default", !.trace = Log(f, steps)]]
    /\ UNCHANGED <<now, environ, backend, last_write, probe>>

\* RefreshDefault with the bug of credentials.expired read and not heeded:
\* credentials.refresh() is called every time
RefreshDefault_always_refreshes(c) ==
    /\ frame[c].pc = "refresh_default"
    /\ LET f == frame[c] IN
       \E found \in BOOLEAN, expired \in BOOLEAN :
          frame' = [frame EXCEPT ![c] =
              IF ~found
              THEN Propagate(f, "DefaultCredentialsError",
                             <<"google.auth.default">>)
              ELSE [f EXCEPT !.pc = "refresh_request",
                             !.expired = expired,
                             !.trace = Log(f, <<"google.auth.default",
                                                "credentials.expired">>)]]
    /\ UNCHANGED <<now, environ, backend, last_write, probe>>

\* cred.refresh(): credentials, _ = google.auth.default(), which may raise,
\* and the read of credentials.expired
RefreshDefault(c) ==
    /\ frame[c].pc = "refresh_default"
    /\ LET f == frame[c] IN
       \E found \in BOOLEAN, expired \in BOOLEAN :
          frame' = [frame EXCEPT ![c] =
              IF ~found
              THEN Propagate(f, "DefaultCredentialsError",
                             <<"google.auth.default">>)
              ELSE [f EXCEPT !.pc = IF expired THEN "refresh_request"
                                    ELSE "refresh_token",
                             !.expired = expired,
                             !.trace = Log(f, <<"google.auth.default",
                                                "credentials.expired">>)]]
    /\ UNCHANGED <<now, environ, backend, last_write, probe>>

\* credentials.refresh(Request()), which may raise
RefreshRequest(c) ==
    /\ frame[c].pc = "refresh_request"
    /\ LET f == frame[c] IN
       \E ok \in BOOLEAN :
          frame' = [frame EXCEPT ![c] =
              IF ok
              THEN [f EXCEPT !.pc = "refresh_token",
                             !.trace = Log(f, <<"credentials.refresh">>)]
              ELSE Propagate(f, "RefreshError", <<"credentials.refresh">>)]
    /\ UNCHANGED <<now, environ, backend, last_write, probe>>

\* refreshed with the bug of the provider's own lifetime used: the expiry is
\* an hour after the refresh
refreshed_hour(token, t) ==
    GoogleCredential(token, Some([min |-> t + 60, aware |-> TRUE]))

\* refreshed with the bug of the expiry not set: the record keeps the absent
\* expiry it was decoded with
refreshed_without_expiry(token, t) == GoogleCredential(token, None)

\* refreshed with the bug of the window forgotten: the expiry is the minute
\* of the refresh
refreshed_unstamped(token, t) ==
    GoogleCredential(token, Some([min |-> t, aware |-> TRUE]))

\* the credential refresh() leaves at minute t: the provider's token, stamped
refreshed(token, t) ==
    GoogleCredential(token, Some([min |-> t + default_expiry, aware |-> TRUE]))

\* self.token = credentials.token; self.expiry = now + default_expiry; then
\* get_password encodes: a raise ends the call, a false result skips the write
RefreshToken(c) ==
    /\ frame[c].pc = "refresh_token"
    /\ LET f == frame[c] IN
       \E token \in ProviderTokens :
          LET fresh == refreshed(token, now)
              e == encode(fresh)
              g == [f EXCEPT !.cred = fresh, !.provided = token,
                             !.refreshed_at = Some(now)]
              steps == <<"credentials.token", "encode">>
          IN frame' = [frame EXCEPT ![c] =
                 IF e.exc # "" THEN Propagate(g, e.exc, steps)
                 ELSE IF ~truthy(e.val) THEN Return(g, fresh.token, steps)
                 ELSE [g EXCEPT !.pc = "get_write", !.encoded = e.val,
                                !.trace = Log(f, steps)]]
    /\ UNCHANGED <<now, environ, backend, last_write, probe>>

\* GetWrite with the bug of the record stamped anew when it is written, not
\* when the token was read
GetWrite_restamped(c) ==
    /\ frame[c].pc = "get_write"
    /\ LET f == frame[c]
           k == f.key[1]
       IN \E ok \in BOOLEAN :
          IF ok
          THEN /\ frame' = [frame EXCEPT ![c] =
                      Return(f, f.cred.token, <<"backend.set_password">>)]
               /\ backend' = [backend EXCEPT ![k] =
                      encode(GoogleCredential(
                          f.cred.token,
                          Some([min |-> now + default_expiry,
                                aware |-> TRUE]))).val]
               /\ last_write' = [last_write EXCEPT ![k] =
                      Write(c, "get_password", f.cred.token, f.refreshed_at)]
          ELSE /\ frame' = [frame EXCEPT ![c] =
                      Ended([f EXCEPT !.raised = Some("PasswordSetError")],
                            Raise("PasswordSetError"),
                            <<"backend.set_password">>)]
               /\ UNCHANGED <<backend, last_write>>
    /\ UNCHANGED <<now, environ, probe>>

\* self.backend.set_password(service, username, encoded), which may raise;
\* return cred.token
GetWrite(c) ==
    /\ frame[c].pc = "get_write"
    /\ LET f == frame[c]
           k == f.key[1]
       IN \E ok \in BOOLEAN :
          IF ok
          THEN /\ frame' = [frame EXCEPT ![c] =
                      Return(f, f.cred.token, <<"backend.set_password">>)]
               /\ backend' = [backend EXCEPT ![k] = f.encoded]
               /\ last_write' = [last_write EXCEPT ![k] =
                      Write(c, "get_password", f.cred.token, f.refreshed_at)]
          ELSE /\ frame' = [frame EXCEPT ![c] =
                      Propagate(f, "PasswordSetError", <<"backend.set_password">>)]
               /\ UNCHANGED <<backend, last_write>>
    /\ UNCHANGED <<now, environ, probe>>

\* -------------------------------------------- set_password, delete_password

\* stored_form with the bug of the window forgotten: the expiry is the
\* minute of the call
stored_form_unstamped(service, username, password, t) ==
    IF EnvGet("KEYRING_GCLOUD_ON", "") # ""
       \/ username = EnvGet("KEYRING_GCLOUD_USERNAME", "oauth2accesstoken")
    THEN LET cred == GoogleCredential(Some(password),
                                      Some([min |-> t, aware |-> TRUE]))
         IN IF ~IsAscii(password) THEN Raise("UnicodeEncodeError")
            ELSE Ret(Some(b64encode(isoformat(cred.expiry[1])) \o <<Colon>>
                          \o b64encode(password)))
    ELSE Ret(Some(password))

\* what set_password hands to the backend at minute t: the encoded
\* credential of an intercepted key, the password as it is otherwise
stored_form(service, username, password, t) ==
    IF should_intercept(service, username)
    THEN LET e == encode(GoogleCredential(Some(password),
                                          Some([min |-> t + default_expiry,
                                                aware |-> TRUE])))
         IN IF e.exc = "" /\ ~truthy(e.val) THEN Ret(Some(password)) ELSE e
    ELSE Ret(Some(password))

\* set_password(service, username, password)
SetPassword(c, k, password) ==
    /\ Idle(c)
    /\ LET f == NewFrame("set_password", k, Some(password), "done")
           hit == should_intercept(k.service, k.username)
           s == stored_form(k.service, k.username, password, now)
           steps == IF hit THEN <<"_should_intercept", "encode">>
                    ELSE <<"_should_intercept">>
       IN \E ok \in BOOLEAN :
             IF s.exc # ""
             THEN /\ frame' = [frame EXCEPT ![c] = Propagate(f, s.exc, steps)]
                  /\ UNCHANGED <<backend, last_write>>
             ELSE IF ok
             THEN /\ frame' = [frame EXCEPT ![c] =
                         Return(f, None, steps \o <<"backend.set_password">>)]
                  /\ backend' = [backend EXCEPT ![k] = s.val]
                  /\ last_write' = [last_write EXCEPT ![k] =
                         IF hit THEN Write(c, "set_password", Some(password),
                                           Some(now))
                         ELSE Write(c, "set_password", None, None)]
             ELSE /\ frame' = [frame EXCEPT ![c] =
                         Propagate(f, "PasswordSetError",
                                   steps \o <<"backend.set_password">>)]
                  /\ UNCHANGED <<backend, last_write>>
    /\ UNCHANGED <<now, environ, probe>>

\* DeletePassword with the bug of the service cleared: every key of the
\* service is deleted, not only the one named
DeletePassword_whole_service(c, k) ==
    /\ Idle(c)
    /\ LET f == NewFrame("delete_password", k, None, "done") IN
       \E ok \in BOOLEAN :
          IF ok
          THEN /\ frame' = [frame EXCEPT ![c] =
                      Return(f, None, <<"backend.delete_password">>)]
               /\ backend' = [j \in Keys |->
                      IF j.service = k.service THEN None ELSE backend[j]]
               /\ last_write' = [j \in Keys |->
                      IF j.service = k.service THEN NoWrite ELSE last_write[j]]
          ELSE /\ frame' = [frame EXCEPT ![c] =
                      Propagate(f, "PasswordDeleteError",
                                <<"backend.delete_password">>)]
               /\ UNCHANGED <<backend, last_write>>
    /\ UNCHANGED <<now, environ, probe>>

\* delete_password(service, username): the backend's delete, which may raise
DeletePassword(c, k) ==
    /\ Idle(c)
    /\ LET f == NewFrame("delete_password", k, None, "done") IN
       \E ok \in BOOLEAN :
          IF ok
          THEN /\ frame' = [frame EXCEPT ![c] =
                      Return(f, None, <<"backend.delete_password">>)]
               /\ backend' = [backend EXCEPT ![k] = None]
               /\ last_write' = [last_write EXCEPT ![k] = NoWrite]
          ELSE /\ frame' = [frame EXCEPT ![c] =
                      Propagate(f, "PasswordDeleteError",
                                <<"backend.delete_password">>)]
               /\ UNCHANGED <<backend, last_write>>
    /\ UNCHANGED <<now, environ, probe>>

\* the caller has taken what the call returned or raised
Forget(c) ==
    /\ frame[c].pc = "done"
    /\ frame' = [frame EXCEPT ![c] = IdleFrame]
    /\ UNCHANGED <<now, environ, backend, last_write, probe>>

\* ------------------------------------------------------- specifications

\* the caller of the single-caller specification
Solo == CHOOSE c \in Callers : \A d \in Callers : c <= d

Step(c) ==
    \/ GetRead(c)
    \/ GetDecide(c)
    \/ RefreshDefault(c)
    \/ RefreshRequest(c)
    \/ RefreshToken(c)
    \/ GetWrite(c)

\* one caller, one call at a time; a finished call is looked at as it ends,
\* before the clock moves on
Next ==
    \/ frame[Solo].pc # "done" /\ Tick
    \/ SetEnviron
    \/ Forget(Solo)
    \/ \E k \in Keys : GetStart(Solo, k)
    \/ \E k \in Keys, p \in Passwords : SetPassword(Solo, k, p)
    \/ \E k \in Keys : DeletePassword(Solo, k)
    \/ Step(Solo)

Spec == Init /\ [][Next]_vars

\* the key the concurrent callers ask for
SharedKey == [service |-> "gcloud", username |-> "oauth2accesstoken"]

ConcInit == Init /\ environ = [KEYRING_GCLOUD_ON |-> None,
                               KEYRING_GCLOUD_USERNAME |-> None]

\* two callers whose get_password calls interleave step by step; the
\* results are taken once no call is running
ConcNext ==
    \/ Tick
    \/ \E c \in Callers :
          \/ GetStart(c, SharedKey)
          \/ Step(c)
          \/ (\A d \in Callers : frame[d].pc \in {"idle", "done"}) /\ Forget(c)

ConcSpec == ConcInit /\ [][ConcNext]_vars

\* ------------------------------------------------------ the codec alone

\* the texts and datetimes the codec is tried on: empty, plain, holding the
\* separator, longer than one base64 group, the last ASCII code point, and
\* texts outside ASCII
CodecTexts ==
    {<<>>, <<97>>, <<Colon>>, <<97, 98>>, <<97, Colon, 98, 99>>, <<127>>,
     <<233>>, <<97, 233>>}
CodecMinutes == {0, 9, 59, 60, 115, 600, 1439}
CodecDatetimes == [min : CodecMinutes, aware : BOOLEAN]
CodecCredentials ==
    [token : {None} \cup {Some(t) : t \in CodecTexts},
     expiry : {None} \cup {Some(d) : d \in CodecDatetimes}]

\* the minutes valid is read at: around the expiries 9 and 60
CodecNows == {8, 9, 10, 59, 60, 61}

\* the two components of a well-formed stored text: the expiry 01:00 UTC and
\* the token "a" ("YQ==")
GoodExpiry == b64encode(isoformat(UtcNow(60)))
GoodToken == b64encode(<<97>>)
Joined(expiry, token) == Some(expiry \o <<Colon>> \o token)

\* the stored values from_encoded is tried on: nothing, the empty text, no
\* separator, two separators, only a separator, a dangling base64 group
\* ("YQ"), a component outside ASCII, a timestamp that is not ISO, token
\* bytes outside ASCII, characters outside the base64 alphabet ("Y!Q==",
\* "!!!", a leading "!"), text after the padding ("YQ==YQ=="), a naive
\* timestamp, and a well-formed text
CodecStored ==
    {None, Some(<<>>), Some(<<97>>), Some(GoodExpiry),
     Some(GoodExpiry \o <<Colon>> \o GoodToken \o <<Colon>> \o GoodToken),
     Some(<<Colon>>),
     Joined(GoodExpiry, <<89, 81>>), Joined(<<89, 81>>, GoodToken),
     Joined(GoodExpiry, <<233>>), Joined(<<233>>, GoodToken),
     Joined(b64encode(<<97, 98>>), GoodToken),
     Joined(b64encode(<<97, Colon, 98, 99>>), GoodToken),
     Joined(GoodExpiry, b64encode(<<233>>)),
     Joined(b64encode(<<233>>), GoodToken),
     Joined(GoodExpiry, <<89, 33, 81, Pad, Pad>>),
     Joined(GoodExpiry, <<33, 33, 33>>),
     Joined(<<33>> \o GoodExpiry, GoodToken),
     Joined(GoodExpiry, GoodToken \o GoodToken),
     Some(NaiveEncoded),
     Joined(GoodExpiry, GoodToken)}

\* the codec is handed a credential, or a stored value
CodecInit ==
    /\ now = 0
    /\ environ = [KEYRING_GCLOUD_ON |-> None, KEYRING_GCLOUD_USERNAME |-> None]
    /\ backend = [k \in Keys |-> None]
    /\ frame = [c \in Callers |-> IdleFrame]
    /\ last_write = [k \in Keys |-> NoWrite]
    /\ \/ \E r \in CodecCredentials :
             probe = [NoProbe EXCEPT !.stage = "input", !.cred = r]
       \/ \E v \in CodecStored :
             probe = [NoProbe EXCEPT !.stage = "stored", !.text = v]

\* cred.encode()
CodecEncode ==
    /\ probe.stage = "input"
    /\ probe' = [probe EXCEPT !.stage = "encoded", !.encoded = encode(probe.cred)]
    /\ UNCHANGED <<now, environ, backend, frame, last_write>>

\* GoogleCredential.from_encoded(...) of what encode() returned
CodecDecode ==
    /\ probe.stage = "encoded"
    /\ probe.encoded.exc = ""
    /\ probe' = [probe EXCEPT !.stage = "decoded",
                              !.decoded = from_encoded(probe.encoded.val)]
    /\ UNCHANGED <<now, environ, backend, frame, last_write>>

\* GoogleCredential.from_encoded(...) of a stored value
CodecParse ==
    /\ probe.stage = "stored"
    /\ probe' = [probe EXCEPT !.stage = "parsed",
                              !.decoded = from_encoded(probe.text)]
    /\ UNCHANGED <<now, environ, backend, frame, last_write>>

\* cred.valid, read at minute t
CodecValid ==
    /\ probe.stage = "input"
    /\ \E t \in CodecNows :
          probe' = [probe EXCEPT !.stage = "checked", !.at = t,
                                 !.verdict = valid(probe.cred, t)]
    /\ UNCHANGED <<now, environ, backend, frame, last_write>>

CodecNext == CodecEncode \/ CodecDecode \/ CodecParse \/ CodecValid

CodecSpec == CodecInit /\ [][CodecNext]_vars

\* --------------------------------------------------------------- claims

\* caller c's call of op has just ended
Done(c, op) == frame[c].pc = "done" /\ frame[c].op = op
\* the key of caller c's call
KeyOf(c) == frame[c].key[1]

\* the calls that consult the identity provider
ProviderCalls ==
    {"google.auth.default", "credentials.expired", "credentials.refresh",
     "credentials.token"}
AskedProvider(f) == \E n \in ProviderCalls : Did(f, n)

\* a stored value that decodes to a record with token and expiry present
\* and the expiry, a UTC timestamp, at or after minute t
StoredValid(v, t) ==
    LET d == from_encoded(v) IN
    /\ d.token # None /\ d.expiry # None
    /\ d.expiry[1].aware /\ d.expiry[1].min >= t

\* a stored value that is absent, does not decode, or decodes to a record
\* whose expiry is before minute t
StoredStale(v, t) ==
    LET d == from_encoded(v) IN
    \/ d = EmptyCredential
    \/ d.expiry # None /\ d.expiry[1].aware /\ d.expiry[1].min < t

\* the record a refresh at minute t with token tok is claimed to leave
Stamped(tok, t) == [token |-> tok, expiry |-> Some([min |-> t + 55, aware |-> TRUE])]

\* C1: an intercepted get_password that finds the stored value absent,
\* undecodable or expired, is given token t by the provider and returns,
\* returns t, and the backend then holds a value that decodes to token t with
\* expiry = the minute of the refresh + 55, valid at that minute.
C1_RefreshReturnsAndStores ==
    \A c \in Callers : LET f == frame[c] IN
        ( /\ Done(c, "get_password") /\ f.raised = None
          /\ f.valid_at # None /\ StoredStale(f.before[KeyOf(c)], f.valid_at[1])
          /\ f.provided # None )
        => /\ Did(f, "credentials.token")
           /\ f.ret = Ret(f.provided)
           /\ from_encoded(backend[KeyOf(c)]) = Stamped(f.provided, f.refreshed_at[1])
           /\ StoredValid(backend[KeyOf(c)], f.refreshed_at[1])

\* C1's case: the stored record had expired, the provider gave "b"
C1_Witness ==
    \E c \in Callers : LET f == frame[c] IN
        /\ Done(c, "get_password") /\ f.raised = None /\ f.valid_at # None
        /\ from_encoded(f.before[KeyOf(c)]).token # None
        /\ StoredStale(f.before[KeyOf(c)], f.valid_at[1])
        /\ f.provided = Some(<<98>>) /\ f.ret = Ret(Some(<<98>>))
        /\ backend[KeyOf(c)] # f.before[KeyOf(c)]

\* C2: when the stored value decodes to a valid record, an intercepted
\* get_password returns that record's token, makes no call to the identity
\* provider and leaves the backend as it was.
C2_ValidIsReturnedUntouched ==
    \A c \in Callers : LET f == frame[c] IN
        ( /\ Done(c, "get_password") /\ f.valid_at # None
          /\ StoredValid(f.before[KeyOf(c)], f.valid_at[1]) )
        => /\ f.ret = Ret(from_encoded(f.before[KeyOf(c)]).token)
           /\ ~AskedProvider(f)
           /\ ~Did(f, "backend.set_password")
           /\ backend = f.before

\* C2's case at its boundary: the expiry is the minute of the check
C2_Witness ==
    \E c \in Callers : LET f == frame[c] IN
        /\ Done(c, "get_password") /\ f.valid_at # None
        /\ StoredValid(f.before[KeyOf(c)], f.valid_at[1])
        /\ from_encoded(f.before[KeyOf(c)]).expiry[1].min = f.valid_at[1]
        /\ f.ret.val # None

\* C3 as claimed: an intercepted get_password that returns never returns an
\* absent token.
C3_Original ==
    \A c \in Callers : LET f == frame[c] IN
        (Done(c, "get_password") /\ f.valid_at # None /\ f.ret.exc = "")
        => f.ret.val # None

\* C3 amended: an intercepted get_password that returns, returns an absent
\* token exactly when the provider's token was absent on the refresh path;
\* it then raises nothing, skips the write and leaves the backend as it was.
C3_AbsentTokenReturned ==
    \A c \in Callers : LET f == frame[c] IN
        (Done(c, "get_password") /\ f.valid_at # None /\ f.ret.exc = "")
        => /\ (f.ret.val = None) <=> (Did(f, "credentials.token") /\ f.provided = None)
           /\ (f.ret.val = None) =>
                 (f.raised = None /\ ~Did(f, "backend.set_password")
                  /\ backend = f.before)

\* C3's case: the provider's token was absent
C3_Witness ==
    \E c \in Callers : LET f == frame[c] IN
        /\ Done(c, "get_password") /\ Did(f, "credentials.token")
        /\ f.provided = None /\ f.ret = Ret(None)

\* C4: when the stored record is invalid and credentials.refresh() raises,
\* get_password raises that error, returns no token, and the backend is
\* exactly as it was before the call; refresh() was tried once.
C4_RefreshFailurePropagates ==
    \A c \in Callers : LET f == frame[c] IN
        (Done(c, "get_password") /\ f.raised = Some("RefreshError"))
        => /\ f.ret = Raise("RefreshError")
           /\ backend = f.before
           /\ ~Did(f, "backend.set_password")
           /\ Times(f, "credentials.refresh") = 1

\* C4's case: an expired record was stored when refresh() raised
C4_Witness ==
    \E c \in Callers : LET f == frame[c] IN
        /\ Done(c, "get_password") /\ f.raised = Some("RefreshError")
        /\ from_encoded(f.before[KeyOf(c)]).token # None
        /\ StoredStale(f.before[KeyOf(c)], f.valid_at[1])

\* C5 as claimed: when the write of the refreshed record raises,
\* get_password still returns the fresh token and raises nothing.
C5_Original ==
    \A c \in Callers : LET f == frame[c] IN
        (Done(c, "get_password") /\ f.raised = Some("PasswordSetError"))
        => f.ret = Ret(f.provided)

\* C5 amended: when the write of the refreshed record raises, get_password
\* raises that error, the fresh token is not returned, and the backend keeps
\* the value it had.
C5_WriteFailurePropagates ==
    \A c \in Callers : LET f == frame[c] IN
        (Done(c, "get_password") /\ f.raised = Some("PasswordSetError"))
        => /\ f.ret = Raise("PasswordSetError")
           /\ Did(f, "credentials.token") /\ f.provided # None
           /\ backend = f.before

\* C5's case: the provider gave a token and the write raised
C5_Witness ==
    \E c \in Callers : LET f == frame[c] IN
        /\ Done(c, "get_password") /\ f.raised = Some("PasswordSetError")
        /\ f.provided = Some(<<98>>)

\* C6: after set_password stored token t under an intercepted key, with no
\* other write or delete of the key since, a get_password whose validity
\* check falls within 55 minutes of the set_password returns t and makes no
\* call to the identity provider.
C6_PutThenGet ==
    \A c \in Callers : LET f == frame[c] IN
        ( /\ Done(c, "get_password") /\ f.valid_at # None
          /\ f.prior.op = "set_password" /\ f.prior.token # None
          /\ f.valid_at[1] <= f.prior.at[1] + 55 )
        => /\ f.ret = Ret(f.prior.token)
           /\ ~AskedProvider(f)

\* C6's case: the get_password comes later than the set_password, at the
\* window's last minute
C6_Witness ==
    \E c \in Callers : LET f == frame[c] IN
        /\ Done(c, "get_password") /\ f.valid_at # None
        /\ f.prior.op = "set_password" /\ f.prior.token = Some(<<97>>)
        /\ f.valid_at[1] = f.prior.at[1] + 55
        /\ f.ret = Ret(Some(<<97>>))

\* both callers' get_password calls for the same key have ended, each after
\* refreshing and writing
BothRefreshed(c, d) ==
    /\ c # d
    /\ Done(c, "get_password") /\ Done(d, "get_password")
    /\ KeyOf(c) = KeyOf(d)
    /\ frame[c].raised = None /\ frame[d].raised = None
    /\ Did(frame[c], "backend.set_password")
    /\ Did(frame[d], "backend.set_password")

PolicyFalse(k) ==
    /\ environ.KEYRING_GCLOUD_ON = None
    /\ k.username # (IF environ.KEYRING_GCLOUD_USERNAME = None
                     THEN "oauth2accesstoken"
                     ELSE environ.KEYRING_GCLOUD_USERNAME[1])

\* C8: when the interception policy is false for the key, get_password
\* returns exactly the value the backend holds (None if none) and
\* set_password writes exactly the password it was given; neither decodes,
\* encodes or calls the identity provider.
C8_PassThrough ==
    \A c \in Callers : LET f == frame[c] IN
        /\ (Done(c, "get_password") /\ PolicyFalse(KeyOf(c)) /\ f.raised = None)
           => /\ f.ret = Ret(f.before[KeyOf(c)])
              /\ backend = f.before
              /\ f.trace = <<"backend.get_password", "_should_intercept">>
        /\ (Done(c, "set_password") /\ PolicyFalse(KeyOf(c)) /\ f.raised = None)
           => /\ backend = [f.before EXCEPT ![KeyOf(c)] = f.password]
              /\ f.trace = <<"_should_intercept", "backend.set_password">>

\* C8's case: a set_password replaces an encoded credential by the plain
\* password while KEYRING_GCLOUD_USERNAME names another user
C8_Witness ==
    \E c \in Callers : LET f == frame[c] IN
        /\ Done(c, "set_password") /\ PolicyFalse(KeyOf(c)) /\ f.raised = None
        /\ KeyOf(c).username = "oauth2accesstoken"
        /\ from_encoded(f.before[KeyOf(c)]).token # None
        /\ backend[KeyOf(c)] = Some(<<97>>)

\* C9 as claimed: a backend read that raises is not surfaced: get_password
\* goes on as if nothing were stored and returns the provider's token.
C9_Original ==
    \A c \in Callers : LET f == frame[c] IN
        (Done(c, "get_password") /\ f.raised = Some("KeyringLocked"))
        => f.ret.exc = "" /\ Did(f, "credentials.token")

\* C9 amended: a backend read that raises makes get_password raise that
\* error: nothing is decoded, the identity provider is not called and the
\* backend is not written.
C9_ReadFailurePropagates ==
    \A c \in Callers : LET f == frame[c] IN
        (Done(c, "get_password") /\ f.raised = Some("KeyringLocked"))
        => /\ f.ret = Raise("KeyringLocked")
           /\ f.trace = <<"backend.get_password">>
           /\ backend = f.before

\* C9's case: the read raised for an intercepted key
C9_Witness ==
    \E c \in Callers : LET f == frame[c] IN
        /\ Done(c, "get_password") /\ f.raised = Some("KeyringLocked")
        /\ should_intercept(KeyOf(c).service, KeyOf(c).username)

\* the credential under test has both fields
ProbeComplete == probe.cred.token # None /\ probe.cred.expiry # None

\* C10 as claimed: for every credential with token and expiry present,
\* encode returns a text and from_encoded of it is the credential again.
C10_Original ==
    (probe.stage \in {"encoded", "decoded"} /\ ProbeComplete)
    => /\ probe.encoded.exc = "" /\ probe.encoded.val # None
       /\ from_encoded(probe.encoded.val) = probe.cred

\* C10 amended: for every credential with token and expiry present whose
\* token is ASCII text, from_encoded(encode(r)) = r, token and expiry alike;
\* for a token outside ASCII encode raises UnicodeEncodeError.
C10_RoundTrip ==
    /\ (probe.stage \in {"encoded", "decoded"} /\ ProbeComplete)
       => IF IsAscii(probe.cred.token[1])
          THEN probe.encoded.exc = "" /\ probe.encoded.val # None
          ELSE probe.encoded = Raise("UnicodeEncodeError")
    /\ (probe.stage = "decoded" /\ ProbeComplete)
       => /\ probe.decoded.token = probe.cred.token
          /\ probe.decoded.expiry = probe.cred.expiry

\* C10's case: a token that holds the separator was encoded and decoded
C10_Witness ==
    /\ probe.stage = "decoded" /\ ProbeComplete
    /\ probe.cred.token = Some(<<97, Colon, 98, 99>>)
    /\ probe.decoded = probe.cred

\* ---- C11

\* how often the separator occurs in a text, and the text on either side of
\* its first occurrence
ColonCount(s) == Cardinality({i \in 1..Len(s) : s[i] = Colon})
FirstColon(s) == CHOOSE i \in 1..Len(s) :
                     s[i] = Colon /\ \A j \in 1..(i - 1) : s[j] # Colon
LeftOf(s) == SubSeq(s, 1, FirstColon(s) - 1)
RightOf(s) == SubSeq(s, FirstColon(s) + 1, Len(s))

\* a component with no padding whose base64 characters do not fill whole
\* groups of four
Dangling(p) ==
    /\ \A i \in 1..Len(p) : p[i] # Pad
    /\ Cardinality({i \in 1..Len(p) : B64Index(p[i]) < 64}) % 4 # 0

\* a stored value that is the encoded form of some record: the base64 of an
\* ISO timestamp, one separator, the base64 of an ASCII token
IsEncodedForm(v) ==
    /\ v # None
    /\ \E d \in CodecDatetimes, x \in CodecTexts :
          /\ IsAscii(x)
          /\ v[1] = b64encode(isoformat(d)) \o <<Colon>> \o b64encode(x)

\* a stored value from_encoded's steps cannot get through: nothing or the
\* empty text, a number of separators other than one, a component outside
\* ASCII or with a dangling base64 group, an expiry component that encodes a
\* text that is no timestamp (none of CodecTexts is one), a token component
\* that encodes bytes outside ASCII
Rejected(v) ==
    \/ v = None
    \/ v = Some(<<>>)
    \/ ColonCount(v[1]) # 1
    \/ \E p \in {LeftOf(v[1]), RightOf(v[1])} : ~IsAscii(p) \/ Dangling(p)
    \/ \E x \in CodecTexts : LeftOf(v[1]) = b64encode(x)
    \/ \E x \in CodecTexts : ~IsAscii(x) /\ RightOf(v[1]) = b64encode(x)

\* a text without the characters base64 decoding skips: those that are
\* neither of the alphabet, nor padding, nor the separator
RECURSIVE Unskipped(_)
Unskipped(s) ==
    IF Len(s) = 0 THEN <<>>
    ELSE (IF B64Index(s[1]) < 64 \/ s[1] \in {Pad, Colon} THEN <<s[1]>> ELSE <<>>)
         \o Unskipped(Tail(s))

\* C11 as claimed: from_encoded returns the empty record, whose valid is
\* false, for every stored value that is not the encoded form of a record:
\* absent, empty, a wrong number of separators, invalid base64 in either
\* component, a timestamp that is not ISO.
C11_Original ==
    (probe.stage = "parsed" /\ ~IsEncodedForm(probe.text))
    => /\ probe.decoded = EmptyCredential
       /\ \A t \in CodecNows : valid(probe.decoded, t) = Ret(FALSE)

\* C11 amended: from_encoded returns a record with both fields or neither;
\* it returns the empty record, whose valid is false at any time, for an
\* absent or empty value, a number of separators other than one, a component
\* outside ASCII or with a dangling base64 group, an expiry that is no ISO
\* timestamp and token bytes outside ASCII; characters outside the base64
\* alphabet in an ASCII value are skipped, not rejected: the value decodes as
\* it does without them.
C11_DecodeTotal ==
    probe.stage = "parsed"
    => /\ (probe.decoded.token = None) <=> (probe.decoded.expiry = None)
       /\ Rejected(probe.text)
          => /\ probe.decoded = EmptyCredential
             /\ \A t \in CodecNows : valid(probe.decoded, t) = Ret(FALSE)
       /\ (probe.text # None /\ IsAscii(probe.text[1]))
          => probe.decoded = from_encoded(Some(Unskipped(probe.text[1])))

\* C11's case: a token component with a character outside the base64
\* alphabet ("Y!Q==") was decoded, to the token "a"
C11_Witness ==
    /\ probe.stage = "parsed"
    /\ probe.text = Joined(GoodExpiry, <<89, 33, 81, Pad, Pad>>)
    /\ ~IsEncodedForm(probe.text)
    /\ probe.decoded = GoogleCredential(Some(<<97>>), Some(UtcNow(60)))

\* ---- C12

\* C12: for a record whose expiry is absent or a UTC timestamp, valid is true
\* exactly when token and expiry are both present and the expiry is at or
\* after the current time: an expiry equal to the current time is valid, an
\* expiry one unit of time before it is not, and a record with either field
\* absent is never valid.
C12_ValidAtBoundary ==
    (/\ probe.stage = "checked"
     /\ probe.cred.expiry # None => probe.cred.expiry[1].aware)
    => /\ probe.verdict.exc = ""
       /\ probe.verdict.val
          <=> /\ probe.cred.token # None
              /\ probe.cred.expiry # None
              /\ probe.cred.expiry[1].min >= probe.at
       /\ (probe.cred.token = None \/ probe.cred.expiry = None)
          => probe.verdict = Ret(FALSE)
       /\ (probe.cred.token # None /\ probe.cred.expiry # None)
          => /\ probe.cred.expiry[1].min = probe.at => probe.verdict = Ret(TRUE)
             /\ probe.cred.expiry[1].min = probe.at - 1
                => probe.verdict = Ret(FALSE)

\* C12's case: valid was read in the very minute the record expires, and is
\* true
C12_Witness ==
    /\ probe.stage = "checked"
    /\ probe.cred.token # None /\ probe.cred.expiry # None
    /\ probe.cred.expiry[1].aware
    /\ probe.cred.expiry[1].min = probe.at
    /\ probe.verdict = Ret(TRUE)

\* ---- C13

\* the calls a call made to the identity provider, in order
IsProviderCall(n) == n \in ProviderCalls
ProviderTrace(f) == SelectSeq(f.trace, IsProviderCall)

\* C13: in every get_password the provider is driven in one order:
\* google.auth.default(), then the read of credentials.expired, then
\* credentials.refresh() exactly when expired was read as true, then the read
\* of credentials.token; no provider call happens twice in a call, and when
\* expired was read as false refresh() is not called at all.
C13_ProviderOrder ==
    \A c \in Callers :
        LET f == frame[c]
            p == ProviderTrace(f)
        IN /\ \A n \in ProviderCalls : Times(f, n) <= 1
           /\ Did(f, "credentials.expired")
              => /\ SubSeq(p, 1, 2) = <<"google.auth.default",
                                        "credentials.expired">>
                 /\ ~f.expired => ~Did(f, "credentials.refresh")
                 /\ (f.expired /\ f.pc # "refresh_request")
                    => Did(f, "credentials.refresh")
           /\ Did(f, "credentials.refresh") => Did(f, "credentials.expired")
           /\ Did(f, "credentials.token")
              => p = IF f.expired
                     THEN <<"google.auth.default", "credentials.expired",
                            "credentials.refresh", "credentials.token">>
                     ELSE <<"google.auth.default", "credentials.expired",
                            "credentials.token">>

\* C13's case: a get_password whose provider reported unexpired credentials
\* read the token without refreshing them
C13_Witness ==
    \E c \in Callers :
        /\ Done(c, "get_password")
        /\ ~frame[c].expired
        /\ ProviderTrace(frame[c]) = <<"google.auth.default",
                                       "credentials.expired",
                                       "credentials.token">>

\* ---- C14

\* C14: encode of a record whose token is absent returns None, whether the
\* expiry is present or absent, and raises nothing.
C14_NoTokenEncodesToNone ==
    (probe.stage \in {"encoded", "decoded"} /\ probe.cred.token = None)
    => probe.encoded = Ret(None)

\* C14's case: a record with neither token nor expiry was encoded, to None
C14_Witness ==
    /\ probe.stage = "encoded"
    /\ probe.cred = EmptyCredential
    /\ probe.encoded = Ret(None)

\* ---- C15

\* C15: encode of a record whose token is present and whose expiry is absent
\* raises AssertionError and returns no text, whatever the token is.
C15_NoExpiryAsserts ==
    (/\ probe.stage \in {"encoded", "decoded"}
     /\ probe.cred.token # None /\ probe.cred.expiry = None)
    => /\ probe.encoded.exc = "AssertionError"
       /\ probe.encoded.val = None

\* C15's case: the record with token "a" and no expiry was encoded, and the
\* assertion failed
C15_Witness ==
    /\ probe.stage = "encoded"
    /\ probe.cred = GoogleCredential(Some(<<97>>), None)
    /\ probe.encoded = Raise("AssertionError")

\* ---- C16

\* C16: delete_password(K) makes one call, the backend's delete for K, and no
\* other: it reads nothing from the backend, decodes and encodes nothing,
\* asks neither the provider nor _should_intercept, whatever the environment
\* and whether the delete succeeds or raises; every other key keeps its
\* value, and K's value is gone once the delete has succeeded.
C16_DeleteOnly ==
    \A c \in Callers :
        Done(c, "delete_password")
        => LET f == frame[c] IN
           /\ f.trace = <<"backend.delete_password">>
           /\ \A j \in Keys \ {KeyOf(c)} : backend[j] = f.before[j]
           /\ IF f.raised = None
              THEN backend[KeyOf(c)] = None /\ f.ret = Ret(None)
              ELSE backend[KeyOf(c)] = f.before[KeyOf(c)]

\* C16's case: a key that held a value was deleted while another key held
\* one too, under a policy that intercepts the key
C16_Witness ==
    \E c \in Callers :
        /\ Done(c, "delete_password")
        /\ frame[c].raised = None
        /\ frame[c].before[KeyOf(c)] # None
        /\ backend[KeyOf(c)] = None
        /\ \E j \in Keys \ {KeyOf(c)} : backend[j] # None
        /\ ~PolicyFalse(KeyOf(c))

\* ---- C17

\* C17: no call of get_password or set_password hands encode a record with a
\* token and no expiry: the record get_password is about to write has both,
\* and no call fails with AssertionError, whatever the backend held and
\* whatever token the provider gave.
C17_EncodeNeverAsserts ==
    \A c \in Callers :
        LET f == frame[c] IN
        /\ f.raised # Some("AssertionError")
        /\ f.ret.exc # "AssertionError"
        /\ f.pc = "get_write"
           => /\ f.cred.token # None /\ f.cred.expiry # None
              /\ f.encoded # None

\* C17's case: a get_password that found an undecodable value in the backend
\* refreshed, encoded the provider's token and ended without an error
C17_Witness ==
    \E c \in Callers :
        /\ Done(c, "get_password")
        /\ frame[c].before[KeyOf(c)] # None
        /\ from_encoded(frame[c].before[KeyOf(c)]) = EmptyCredential
        /\ Did(frame[c], "encode")
        /\ frame[c].provided # None
        /\ frame[c].raised = None

\* ---- C18

\* the minute at which caller c's get_password read the clock for the record
\* it returned: that of the refresh, or that of the validity check
JudgedAt(c) ==
    IF frame[c].refreshed_at # None THEN frame[c].refreshed_at[1]
    ELSE frame[c].valid_at[1]

\* C18: whenever an intercepted get_password of a single caller returns a
\* token, after any sequence of get_password, set_password and delete_password,
\* the backend's value for the key at the end of that call decodes to a
\* record with that token, valid at the time the call read the clock.
C18_ReturnedIsStored ==
    (/\ Done(Solo, "get_password")
     /\ frame[Solo].valid_at # None
     /\ frame[Solo].ret.exc = ""
     /\ frame[Solo].ret.val # None)
    => /\ from_encoded(backend[KeyOf(Solo)]).token = frame[Solo].ret.val
       /\ StoredValid(backend[KeyOf(Solo)], JudgedAt(Solo))

\* C18's case: a get_password that refreshed returned the provider's token,
\* and the backend now decodes to it
C18_Witness ==
    /\ Done(Solo, "get_password")
    /\ frame[Solo].refreshed_at # None
    /\ frame[Solo].ret.exc = ""
    /\ frame[Solo].ret.val # None
    /\ frame[Solo].ret.val = frame[Solo].provided
    /\ from_encoded(backend[KeyOf(Solo)]).token = frame[Solo].ret.val
    /\ backend[KeyOf(Solo)] # frame[Solo].before[KeyOf(Solo)]

\* ---- C19

\* C19: when the key's value was last written by a get_password that
\* refreshed at minute t, and nothing has written the key since, an
\* intercepted get_password that reads the clock at or before t + 55 returns
\* that same token, asks the provider nothing and writes nothing; one that
\* reads the clock after t + 55 goes to the provider.
C19_CachedForTheWindow ==
    (/\ Done(Solo, "get_password")
     /\ frame[Solo].valid_at # None
     /\ frame[Solo].prior.op = "get_password"
     /\ frame[Solo].prior.token # None
     /\ frame[Solo].prior.at # None)
    => LET f == frame[Solo] IN
       IF f.valid_at[1] <= f.prior.at[1] + 55
       THEN /\ f.ret = Ret(f.prior.token)
            /\ ~AskedProvider(f)
            /\ ~Did(f, "backend.set_password")
            /\ backend = f.before
            /\ last_write[KeyOf(Solo)] = f.prior
       ELSE AskedProvider(f)

\* C19's case: a get_password issued in the last minute of the window of an
\* earlier refresh returned the token of that refresh
C19_Witness ==
    /\ Done(Solo, "get_password")
    /\ frame[Solo].valid_at # None
    /\ frame[Solo].prior.op = "get_password"
    /\ frame[Solo].prior.token # None
    /\ frame[Solo].prior.at # None
    /\ frame[Solo].valid_at[1] = frame[Solo].prior.at[1] + 55
    /\ frame[Solo].ret = Ret(frame[Solo].prior.token)
    /\ ~AskedProvider(frame[Solo])

\* ---- C20

\* a stored value that is present and is no encoded credential: a text
\* without the separator, as set_password writes a password when the key is
\* not intercepted
RawStored(v) == v # None /\ ColonCount(v[1]) = 0
\* a stored value that is present and does not decode
Undecodable(v) == v # None /\ from_encoded(v) = EmptyCredential

\* C20: an intercepted get_password that finds a present value that does
\* not decode stored under the key goes to the provider and never returns
\* that value; when the provider gives a token and the call ends without an
\* error, the backend holds the encoded fresh credential in place of the old
\* value, and the call returns the provider's token.
C20_RawIsReplaced ==
    (/\ Done(Solo, "get_password")
     /\ frame[Solo].valid_at # None
     /\ Undecodable(frame[Solo].before[KeyOf(Solo)]))
    => LET f == frame[Solo]
           k == KeyOf(Solo)
       IN /\ f.ret.val # f.before[k]
          /\ Did(f, "google.auth.default")
          /\ (f.provided # None /\ f.raised = None)
             => /\ f.ret = Ret(f.provided)
                /\ backend[k] # f.before[k]
                /\ from_encoded(backend[k]) = Stamped(f.provided, f.refreshed_at[1])

\* C20's case: a password written while the key was not intercepted was
\* found by an intercepted get_password, which put the provider's credential
\* in its place
C20_Witness ==
    /\ Done(Solo, "get_password")
    /\ frame[Solo].valid_at # None
    /\ RawStored(frame[Solo].before[KeyOf(Solo)])
    /\ frame[Solo].prior = Write(Solo, "set_password", None, None)
    /\ frame[Solo].provided # None
    /\ frame[Solo].raised = None
    /\ frame[Solo].ret = Ret(frame[Solo].provided)
    /\ from_encoded(backend[KeyOf(Solo)]).token = frame[Solo].provided

====
